---- MODULE Spec2Model ----
(***************************************************************************)
(* Model of the Ethereum-events protocol transaction of the ledger node:   *)
(* apply_derived_tx / apply_updates / apply_update / calculate_update /    *)
(* validate_update / write_eth_msg and the eth_msgs storage keys.          *)
(***************************************************************************)
EXTENDS Integers, Sequences, FiniteSets, TLC

(***************************************************************************)
(* Universe of the model.                                                  *)
(***************************************************************************)
\* Validators that sign sightings.
Validators == {"A", "B"}

\* Block heights at which sightings are made (the tests use BlockHeight(100)).
Heights == {100, 101}

\* Ethereum events (TransfersToNamada with one transfer each).
Events == {"E1", "E2"}

\* Largest number of distinct updates in one batch.
MaxUpdates == 2

\* Order of addresses in a BTreeSet.
AddressRank == [a \in {"A", "B", "C"} |-> CASE a = "A" -> 1 [] a = "B" -> 2 [] OTHER -> 3]

\* The transfer carried by each event: both events mint the same asset.
Transfer ==
    [e \in Events |->
        [asset |-> "DAI", receiver |-> IF e = "E1" THEN "R1" ELSE "R2", amount |-> 10]]

\* The validator sets a storage can hold at genesis: the voting power of
\* every validator active at a height.  "C" is a validator that never signs.
\*   EqualThenTwoThirds: A and B have equal power at 100; A has 2/3 at 101.
\*   EqualThenSole:      A and B have equal power at 100; A is alone at 101.
\*   WithoutB:           B is not active at any height.
EqualThenTwoThirds ==
    [h \in Heights |->
        IF h = 100 THEN [v \in {"A", "B"} |-> 100]
        ELSE [v \in {"A", "C"} |-> IF v = "A" THEN 200 ELSE 100]]

EqualThenSole ==
    [h \in Heights |->
        IF h = 100 THEN [v \in {"A", "B"} |-> 100] ELSE [v \in {"A"} |-> 100]]

WithoutB ==
    [h \in Heights |->
        IF h = 100 THEN [v \in {"A", "C"} |-> 100] ELSE [v \in {"A"} |-> 100]]

ValidatorSetChoices == {EqualThenTwoThirds, EqualThenSole, WithoutB}

(***************************************************************************)
(* FractionalVotingPower: a reduced ratio <<numerator, denominator>>.      *)
(***************************************************************************)
RECURSIVE Gcd(_, _)
Gcd(a, b) == IF b = 0 THEN a ELSE Gcd(b, a % b)

FvpNew(n, d) == LET g == Gcd(n, d) IN <<n \div g, d \div g>>

FvpDefault == <<0, 1>>

FvpAdd(p, q) == FvpNew(p[1] * q[2] + q[1] * p[2], p[2] * q[2])

FvpGt(p, q) == p[1] * q[2] > q[1] * p[2]

FvpGe(p, q) == p[1] * q[2] >= q[1] * p[2]

TWO_THIRDS == <<2, 3>>

(***************************************************************************)
(* Storage keys of the /eth_msgs subspace and of wrapped ERC20 tokens.     *)
(***************************************************************************)
TOP_LEVEL_KEY == "eth_msgs"

BODY_KEY == "body"

SEEN_KEY == "seen"

SEEN_BY_KEY == "seen_by"

VOTING_POWER_KEY == "voting_power"

\* Hex string of the hash of an event body.
EventHashHex(e) == IF e = "E1" THEN "87288D68" ELSE "3C9A04F1"

top_level_key == <<TOP_LEVEL_KEY>>

\* EthMsgKeys::new: the prefix eth_msgs/<hex of the hash>.
EthMsgKeys_new(hex) == Append(top_level_key, hex)

KeysFrom(e) == EthMsgKeys_new(EventHashHex(e))

body_key(prefix) == Append(prefix, BODY_KEY)

seen_key(prefix) == Append(prefix, SEEN_KEY)

\* Mutant: the seen_by key is built with the segment of the seen key.
seen_by_key_seen_segment(prefix) == Append(prefix, SEEN_KEY)

seen_by_key(prefix) == Append(prefix, SEEN_BY_KEY)

voting_power_key(prefix) == Append(prefix, VOTING_POWER_KEY)

\* Keys::into_iter: the four keys of one event.
keys_into_iter(prefix) ==
    {body_key(prefix), seen_key(prefix), seen_by_key(prefix), voting_power_key(prefix)}

balance_key(asset, receiver) == <<"ERC20", asset, "balance", receiver>>

supply_key(asset) == <<"ERC20", asset, "supply">>

(***************************************************************************)
(* The abstract store: a function from the keys written so far.            *)
(***************************************************************************)
EmptyStorage == [k \in {} |-> FALSE]

has_key(s, k) == k \in DOMAIN s

storage_write(s, k, v) == [x \in (DOMAIN s) \cup {k} |-> IF x = k THEN v ELSE s[x]]

(***************************************************************************)
(* Voting-power resolver.                                                  *)
(***************************************************************************)
RECURSIVE TotalPower(_, _)
TotalPower(set, vs) ==
    IF vs = {} THEN 0
    ELSE LET v == CHOOSE x \in vs : TRUE IN set[v] + TotalPower(set, vs \ {v})

\* The sightings of a batch: every (validator, height) pair that signs an event.
get_votes_for_events(updates) == UNION {u.seen_by : u \in updates}

\* The active validator set at each of the heights.
get_active_validators(validator_sets, heights) == [h \in heights |-> validator_sets[h]]

\* The voting power of every voter that is active at the height it voted at,
\* as a fraction of the total of that height; voters that are not active at
\* that height get no entry.
get_voting_powers_for_selected(active_validators, voters) ==
    LET selected == {p \in voters : p[1] \in DOMAIN active_validators[p[2]]}
    IN  [p \in selected |->
            FvpNew(active_validators[p[2]][p[1]],
                   TotalPower(active_validators[p[2]], DOMAIN active_validators[p[2]]))]

get_voting_powers(validator_sets, updates) ==
    LET voters == get_votes_for_events(updates)
        active_validators == get_active_validators(validator_sets, {p[2] : p \in voters})
    IN  get_voting_powers_for_selected(active_validators, voters)

(***************************************************************************)
(* The tally of one event (EthMsg) in storage.                             *)
(***************************************************************************)
\* The tally an update starts from when the event is not in storage yet.
new_eth_msg(body) ==
    [body |-> body, voting_power |-> FvpDefault, seen_by |-> {}, seen |-> FALSE]

read_eth_msg(s, prefix) ==
    [body |-> s[body_key(prefix)],
     voting_power |-> s[voting_power_key(prefix)],
     seen_by |-> s[seen_by_key(prefix)],
     seen |-> s[seen_key(prefix)]]

write_eth_msg(s, prefix, eth_msg) ==
    LET s1 == storage_write(s, body_key(prefix), eth_msg.body)
        s2 == storage_write(s1, seen_key(prefix), eth_msg.seen)
        s3 == storage_write(s2, seen_by_key(prefix), eth_msg.seen_by)
    IN  storage_write(s3, voting_power_key(prefix), eth_msg.voting_power)

(***************************************************************************)
(* The votes of one update: the fold over update.seen_by of apply_update.  *)
(***************************************************************************)
SightingLt(p, q) ==
    \/ AddressRank[p[1]] < AddressRank[q[1]]
    \/ p[1] = q[1] /\ p[2] < q[2]

\* The iteration order of a BTreeSet<(Address, BlockHeight)>.
RECURSIVE SortedSightings(_)
SortedSightings(seen_by) ==
    IF seen_by = {} THEN <<>>
    ELSE LET first == CHOOSE p \in seen_by : \A q \in seen_by \ {p} : SightingLt(p, q)
         IN  <<first>> \o SortedSightings(seen_by \ {first})

\* Mutant: the first value inserted for an address is kept.
votes_insert_keep_first(votes, address, fvp) ==
    [a \in (DOMAIN votes) \cup {address} |-> IF a \in DOMAIN votes THEN votes[a] ELSE fvp]

\* HashMap::insert: a later value for the same address replaces the earlier.
votes_insert(votes, address, fvp) ==
    [a \in (DOMAIN votes) \cup {address} |-> IF a = address THEN fvp ELSE votes[a]]

\* unwrap() of a missing voting power panics.
RECURSIVE collect_votes_from(_, _, _, _)
collect_votes_from(sightings, i, votes, voting_powers) ==
    IF i > Len(sightings) THEN [panic |-> FALSE, votes |-> votes]
    ELSE IF sightings[i] \notin DOMAIN voting_powers
         THEN [panic |-> TRUE, votes |-> votes]
         ELSE collect_votes_from(
                  sightings, i + 1,
                  votes_insert(votes, sightings[i][1], voting_powers[sightings[i]]),
                  voting_powers)

collect_votes(seen_by, voting_powers) ==
    collect_votes_from(SortedSightings(seen_by), 1, [a \in {} |-> FvpDefault], voting_powers)

(***************************************************************************)
(* calculate_update and validate_update.                                   *)
(***************************************************************************)
RECURSIVE SumVotes(_, _, _)
SumVotes(power, votes, vs) ==
    IF vs = {} THEN power
    ELSE LET v == CHOOSE x \in vs : \A y \in vs : AddressRank[x] <= AddressRank[y]
         IN  SumVotes(FvpAdd(power, votes[v]), votes, vs \ {v})

\* Mutant: the quorum comparison is not strict.
calculate_update_not_strict(eth_msg_pre, votes) ==
    LET voters == DOMAIN votes
        newly == voters \ eth_msg_pre.seen_by
        eth_msg_post_voting_power == SumVotes(eth_msg_pre.voting_power, votes, newly)
    IN  [body |-> eth_msg_pre.body,
         voting_power |-> eth_msg_post_voting_power,
         seen_by |-> eth_msg_pre.seen_by \cup newly,
         seen |-> FvpGe(eth_msg_post_voting_power, TWO_THIRDS)]

\* Mutant: the weight of every voter is added, also of those already counted.
calculate_update_all_voters(eth_msg_pre, votes) ==
    LET voters == DOMAIN votes
        eth_msg_post_voting_power == SumVotes(eth_msg_pre.voting_power, votes, voters)
    IN  [body |-> eth_msg_pre.body,
         voting_power |-> eth_msg_post_voting_power,
         seen_by |-> eth_msg_pre.seen_by \cup voters,
         seen |-> FvpGt(eth_msg_post_voting_power, TWO_THIRDS)]

calculate_update(eth_msg_pre, votes) ==
    LET voters == DOMAIN votes
        newly == voters \ eth_msg_pre.seen_by
        eth_msg_post_voting_power == SumVotes(eth_msg_pre.voting_power, votes, newly)
        eth_msg_post_seen_by == eth_msg_pre.seen_by \cup newly
        eth_msg_post_seen == FvpGt(eth_msg_post_voting_power, TWO_THIRDS)
    IN  [body |-> eth_msg_pre.body,
         voting_power |-> eth_msg_post_voting_power,
         seen_by |-> eth_msg_post_seen_by,
         seen |-> eth_msg_post_seen]

Err == [ok |-> FALSE, keys |-> {}]

validate_update(pre, post) ==
    LET keys == KeysFrom(pre.body)
        seen == pre.seen # post.seen
        k1 == IF pre.seen # post.seen THEN {seen_key(keys)} ELSE {}
        k2 == IF pre.seen_by # post.seen_by THEN {seen_by_key(keys)} ELSE {}
        k3 == IF pre.voting_power # post.voting_power
              THEN {voting_power_key(keys)} ELSE {}
    IN  IF pre.body # post.body THEN Err
        ELSE IF pre.seen # post.seen /\ (pre.seen = TRUE \/ post.seen = FALSE) THEN Err
        ELSE IF pre.seen_by # post.seen_by /\ ~(pre.seen_by \subseteq post.seen_by) THEN Err
        ELSE IF pre.voting_power # post.voting_power
                /\ FvpGe(pre.voting_power, post.voting_power) THEN Err
        ELSE IF FvpGt(post.voting_power, TWO_THIRDS) /\ ~seen
                /\ FvpGe(pre.voting_power, post.voting_power) THEN Err
        ELSE [ok |-> TRUE, keys |-> k1 \cup k2 \cup k3]

(***************************************************************************)
(* apply_update: one update of a batch.                                    *)
(***************************************************************************)
\* Mutant: the probe looks at a key that is never written.
exists_in_storage_wrong_key(s, prefix) == has_key(s, Append(prefix, "exists"))

\* The presence of the seen key decides whether the event is in storage.
exists_in_storage(s, prefix) == has_key(s, seen_key(prefix))

\* The tally the update is merged into.
eth_msg_pre_of(s, update, exists) ==
    IF exists THEN read_eth_msg(s, KeysFrom(update.body)) ELSE new_eth_msg(update.body)

\* Mutant: a new event is never reported as confirmed.
new_branch_unconfirmed(prefix, vote_tracking) ==
    [changed |-> keys_into_iter(prefix), confirmed |-> FALSE]

\* The event was not in storage: every key of the tally is reported and the
\* event is confirmed when the new tally is seen.
new_branch(prefix, vote_tracking) ==
    [changed |-> keys_into_iter(prefix), confirmed |-> vote_tracking.seen]

\* The event was in storage: no changed key is computed, and the event is
\* confirmed when the tally is seen and the seen key is among the changed.
updated_branch(prefix, vote_tracking) ==
    LET changed == {}
    IN  [changed |-> changed,
         confirmed |-> vote_tracking.seen /\ seen_key(prefix) \in changed]

Panicked(s) ==
    [panic |-> TRUE, storage |-> s, changed |-> {}, confirmed |-> FALSE,
     newly |-> {}, reads |-> 0, writes |-> 0]

\* Result: the storage after the update, the keys it reports as changed,
\* whether the event is newly confirmed, and (for the record of who was
\* counted with which weight) the validators it added to seen_by.
\* A missing voting power and a rejected transition both panic, before any
\* write of the update.
apply_update(s, update, voting_powers) ==
    LET eth_msg_keys == KeysFrom(update.body)
        exists == exists_in_storage(s, eth_msg_keys)
        eth_msg_pre == eth_msg_pre_of(s, update, exists)
        cv == collect_votes(update.seen_by, voting_powers)
        eth_msg_post == calculate_update(eth_msg_pre, cv.votes)
        valid == validate_update(eth_msg_pre, eth_msg_post)
        br == IF ~exists THEN new_branch(eth_msg_keys, eth_msg_post)
              ELSE updated_branch(eth_msg_keys, eth_msg_post)
    IN  IF cv.panic THEN Panicked(s)
        ELSE IF ~valid.ok THEN Panicked(s)
        ELSE [panic |-> FALSE,
              storage |-> write_eth_msg(s, eth_msg_keys, eth_msg_post),
              changed |-> br.changed,
              confirmed |-> br.confirmed,
              newly |-> {<<update.body, v, cv.votes[v]>> :
                            v \in eth_msg_post.seen_by \ eth_msg_pre.seen_by},
              reads |-> IF exists THEN 5 ELSE 1,
              writes |-> 4]

(***************************************************************************)
(* events::act_on: the effect of a confirmed event (mint the transfer).    *)
(***************************************************************************)
AmountAt(s, k) == IF has_key(s, k) THEN s[k] ELSE 0

act_on_keys(event) ==
    {balance_key(Transfer[event].asset, Transfer[event].receiver),
     supply_key(Transfer[event].asset)}

act_on(s, event) ==
    LET t == Transfer[event]
        bk == balance_key(t.asset, t.receiver)
        sk == supply_key(t.asset)
        s1 == storage_write(s, bk, AmountAt(s, bk) + t.amount)
    IN  storage_write(s1, sk, AmountAt(s1, sk) + t.amount)

(***************************************************************************)
(* apply_updates: the batch, in the iteration order of the update set.     *)
(***************************************************************************)
\* One turn of the first loop: the result r of apply_update is folded in.
fold_update(acc, body, r) ==
    IF r.panic THEN [acc EXCEPT !.status = "panic"]
    ELSE [acc EXCEPT !.storage = r.storage,
                     !.changed_keys = @ \cup r.changed,
                     !.confirmed = IF r.confirmed THEN Append(@, body) ELSE @,
                     !.newly = @ \cup r.newly,
                     !.reads = @ + r.reads,
                     !.writes = @ + r.writes]

\* The first loop: apply_update on every update, stopping at a panic.
RECURSIVE apply_each(_, _, _, _)
apply_each(acc, order, i, voting_powers) ==
    IF i > Len(order) \/ acc.status # "ok" THEN acc
    ELSE apply_each(
           fold_update(acc, order[i].body,
                       apply_update(acc.storage, order[i], voting_powers)),
           order, i + 1, voting_powers)

\* The failures a call can meet: none, an error of the voting-power
\* resolution, an error of events::act_on.
Faults == {"none", "resolve", "act_on"}

\* The second loop: act on every newly confirmed event, in the order found.
\* An error of act_on is returned at once (the ? operator).
RECURSIVE act_on_each(_, _, _)
act_on_each(acc, i, fault) ==
    IF i > Len(acc.confirmed) THEN acc
    ELSE IF fault = "act_on" THEN [acc EXCEPT !.status = "err", !.failure = "act_on"]
    ELSE act_on_each(
           [acc EXCEPT !.storage = act_on(@, acc.confirmed[i]),
                       !.changed_keys = @ \cup act_on_keys(acc.confirmed[i]),
                       !.acted = Append(@, acc.confirmed[i]),
                       !.reads = @ + 2,
                       !.writes = @ + 2],
           i + 1, fault)

StartOf(s) ==
    [status |-> "ok", failure |-> "none", storage |-> s, changed_keys |-> {},
     confirmed |-> <<>>, acted |-> <<>>, newly |-> {}, reads |-> 0, writes |-> 0,
     resolved |-> FALSE]

act_on_confirmed(looped, fault) ==
    IF looped.status # "ok" THEN looped
    ELSE IF looped.confirmed = <<>> THEN looped
    ELSE act_on_each(looped, 1, fault)

apply_updates(s, order, voting_powers, fault) ==
    act_on_confirmed(apply_each(StartOf(s), order, 1, voting_powers), fault)

(***************************************************************************)
(* apply_derived_tx.                                                       *)
(***************************************************************************)
SeqRange(q) == {q[i] : i \in 1..Len(q)}

\* The voting-power resolution returned an error: nothing else was done.
resolution_failed(s) ==
    [StartOf(s) EXCEPT !.status = "err", !.failure = "resolve", !.resolved = TRUE,
                       !.reads = 1]

\* Mutant: no early return on an empty batch.
apply_derived_tx_no_early_return(s, validator_sets, order, fault) ==
    IF fault = "resolve" THEN resolution_failed(s)
    ELSE [apply_updates(s, order, get_voting_powers(validator_sets, SeqRange(order)), fault)
            EXCEPT !.resolved = TRUE, !.reads = @ + 1]

\* Mutant: the error of the resolution is looked at after the updates were
\* applied with the weights that could be resolved.
apply_derived_tx_late_error(s, validator_sets, order, fault) ==
    IF order = <<>> THEN StartOf(s)
    ELSE LET r == apply_updates(s, order,
                                get_voting_powers(validator_sets, SeqRange(order)), fault)
         IN  IF fault = "resolve"
             THEN [r EXCEPT !.status = "err", !.failure = "resolve", !.resolved = TRUE]
             ELSE [r EXCEPT !.resolved = TRUE, !.reads = @ + 1]

apply_derived_tx(s, validator_sets, order, fault) ==
    IF order = <<>> THEN StartOf(s)
    ELSE IF fault = "resolve" THEN resolution_failed(s)
    ELSE [apply_updates(s, order, get_voting_powers(validator_sets, SeqRange(order)), fault)
            EXCEPT !.resolved = TRUE, !.reads = @ + 1]

\* Mutant: the storage writes are charged as gas.
TxResultOf_charging_gas(r) ==
    [changed_keys |-> IF r.status = "ok" THEN r.changed_keys ELSE {},
     gas_used |-> r.writes,
     accepted_vps |-> {},
     rejected_vps |-> {},
     vp_errors |-> {},
     initialized_accounts |-> {},
     ibc_event |-> "None"]

\* TxResult: only changed_keys is filled in; an error or a panic returns none.
TxResultOf(r) ==
    [changed_keys |-> IF r.status = "ok" THEN r.changed_keys ELSE {},
     gas_used |-> 0,
     accepted_vps |-> {},
     rejected_vps |-> {},
     vp_errors |-> {},
     initialized_accounts |-> {},
     ibc_event |-> "None"]

(***************************************************************************)
(* The event log: EventLog, Logger and LogEntrySender.                     *)
(***************************************************************************)
MAX_LOG_EVENTS == 50000

LOG_BLOCK_HEIGHT_DIFF == 1000

\* Largest number of entries sent to the logger.
MaxSends == 3

\* Block heights of the FinalizeBlock calls that emit entries.
LogHeights == {1, 2, 1002, 1003}

\* The events one FinalizeBlock call emits.
EntryEvents == {<<"accepted">>, <<"applied", "rejected">>}

\* LogEntry.
LogEntries == [block_height : LogHeights, events : EntryEvents]

\* EventLog::new: the log is a list of nodes from the freshest entry (head)
\* to the oldest.
EventLog_new == [num_entries |-> 0, oldest_height |-> 0, head |-> <<>>]

\* EventLog::prune.
prune(l) == l

\* Mutant: the entry is linked behind the oldest node.
add_behind_oldest(l, entry) ==
    prune([l EXCEPT !.head = @ \o <<entry>>, !.num_entries = @ + 1])

\* EventLog::add: the entry becomes the head, then the log is pruned.
add(l, entry) ==
    prune([l EXCEPT !.head = <<entry>> \o @, !.num_entries = @ + 1])

\* The queries asked of the log.  A well-formed query matches the events of
\* the types it names.
Queries ==
    {[well_formed |-> TRUE, event_types |-> t] :
        t \in {{"accepted"}, {"rejected"}, {"accepted", "applied"}}}
    \cup {[well_formed |-> FALSE, event_types |-> {}]}

\* QueryMatcher::matches.
matches(query, event) == event \in query.event_types

\* A LogNode is named by the number of entries of its list: its entry is
\* the one added as that many-th, its next the node before it; 0 is None.
node_entry(l, node) == l.head[Len(l.head) - node + 1]

node_next(node) == node - 1

NoIterator ==
    [state |-> "none", query |-> [well_formed |-> FALSE, event_types |-> {}],
     node |-> 0, index |-> 0]

\* Mutant: the iterator starts behind the first event of the head entry.
iter_from_second(l, query) ==
    IF ~query.well_formed THEN [NoIterator EXCEPT !.state = "failed"]
    ELSE [state |-> "live", query |-> query, node |-> Len(l.head), index |-> 1]

\* EventLog::iter: None for a query that does not parse, else an iterator
\* at the head of the log.
iter(l, query) ==
    IF ~query.well_formed THEN [NoIterator EXCEPT !.state = "failed"]
    ELSE [state |-> "live", query |-> query, node |-> Len(l.head), index |-> 0]

NoItem == [some |-> FALSE, event |-> "", block_height |-> 0]

\* EventLogIterator::next: the loop up to the next matching event or the
\* end of the list.
RECURSIVE next(_, _)
next(it, l) ==
    IF it.node = 0 THEN [iterator |-> it, item |-> NoItem]
    ELSE LET entry == node_entry(l, it.node)
         IN  IF it.index < Len(entry.events)
             THEN IF matches(it.query, entry.events[it.index + 1])
                  THEN [iterator |-> [it EXCEPT !.index = @ + 1],
                        item |-> [some |-> TRUE, event |-> entry.events[it.index + 1],
                                  block_height |-> entry.block_height]]
                  ELSE next([it EXCEPT !.index = @ + 1], l)
             ELSE next([it EXCEPT !.index = 0, !.node = node_next(@)], l)

\* mpsc::unbounded_channel: the queue and whether the receiver was dropped.
unbounded_channel == [queue |-> <<>>, closed |-> FALSE]

\* Mutant: the entry is queued and Some(()) returned whatever the channel.
send_new_entry_unchecked(chan, entry) ==
    [result |-> "Some", channel |-> [chan EXCEPT !.queue = Append(@, entry)]]

\* LogEntrySender::send_new_entry: sender.send(entry).ok().
send_new_entry(chan, entry) ==
    IF chan.closed THEN [result |-> "None", channel |-> chan]
    ELSE [result |-> "Some", channel |-> [chan EXCEPT !.queue = Append(@, entry)]]

\* Mutant: the entry received is the one sent last.
log_new_entry_newest_first(l, chan) ==
    [log |-> add(prune(l), chan.queue[Len(chan.queue)]),
     channel |-> [chan EXCEPT !.queue = SubSeq(@, 1, Len(@) - 1)]]

\* Logger::log_new_entry once an entry is received: prune, recv, add.
log_new_entry(l, chan) ==
    [log |-> add(prune(l), Head(chan.queue)),
     channel |-> [chan EXCEPT !.queue = Tail(@)]]

\* Dropping the Logger drops the receiver and what it still holds.
drop_receiver(chan) == [queue |-> <<>>, closed |-> TRUE]

(***************************************************************************)
(* Proof-of-stake parameters: PosParams::validate.                         *)
(* Numbers of 64 bits and more are sequences of limbs in base 10000, least *)
(* significant limb first, without leading zero limbs; zero is <<>>.       *)
(***************************************************************************)
DecimalScale == 10000

Limb == DecimalScale

RECURSIVE BigNorm(_)
BigNorm(x) ==
    IF x = <<>> THEN <<>>
    ELSE IF x[Len(x)] = 0 THEN BigNorm(SubSeq(x, 1, Len(x) - 1))
    ELSE x

RECURSIVE BigFromInt(_)
BigFromInt(n) == IF n = 0 THEN <<>> ELSE <<n % Limb>> \o BigFromInt(n \div Limb)

\* x * m + carry for a small m.
RECURSIVE BigMulSmallFrom(_, _, _, _)
BigMulSmallFrom(x, m, i, carry) ==
    IF i > Len(x) THEN BigFromInt(carry)
    ELSE <<(x[i] * m + carry) % Limb>>
            \o BigMulSmallFrom(x, m, i + 1, (x[i] * m + carry) \div Limb)

BigMulSmall(x, m) == BigNorm(BigMulSmallFrom(x, m, 1, 0))

RECURSIVE BigAddFrom(_, _, _, _)
BigAddFrom(x, y, i, carry) ==
    IF i > Len(x) /\ i > Len(y) THEN BigFromInt(carry)
    ELSE LET a == IF i <= Len(x) THEN x[i] ELSE 0
             b == IF i <= Len(y) THEN y[i] ELSE 0
         IN  <<(a + b + carry) % Limb>> \o BigAddFrom(x, y, i + 1, (a + b + carry) \div Limb)

BigAdd(x, y) == BigNorm(BigAddFrom(x, y, 1, 0))

\* x * y, limb by limb.
RECURSIVE BigMulFrom(_, _, _)
BigMulFrom(x, y, i) ==
    IF i > Len(y) THEN <<>>
    ELSE BigAdd(BigMulSmall(x, y[i]),
                IF BigMulFrom(x, y, i + 1) = <<>> THEN <<>>
                ELSE <<0>> \o BigMulFrom(x, y, i + 1))

BigMul(x, y) == BigMulFrom(x, y, 1)

\* The quotient of x by a small d, rounded down.
RECURSIVE BigDivSmallFrom(_, _, _, _)
BigDivSmallFrom(x, d, i, rem) ==
    IF i = 0 THEN <<>>
    ELSE BigDivSmallFrom(x, d, i - 1, (rem * Limb + x[i]) % d)
            \o <<(rem * Limb + x[i]) \div d>>

BigDivSmall(x, d) == BigNorm(BigDivSmallFrom(x, d, Len(x), 0))

RECURSIVE BigGtFrom(_, _, _)
BigGtFrom(x, y, i) ==
    IF i = 0 THEN FALSE
    ELSE IF x[i] # y[i] THEN x[i] > y[i]
    ELSE BigGtFrom(x, y, i - 1)

BigGt(x, y) ==
    IF Len(x) # Len(y) THEN Len(x) > Len(y) ELSE BigGtFrom(x, y, Len(x))

\* u64::MAX = 18446744073709551615.
U64_MAX == <<1615, 955, 737, 6744, 1844>>

\* i64::MAX = 9223372036854775807.
I64_MAX == <<5807, 5477, 368, 3372, 922>>

\* TOKENS_PER_NAM = 1_000_000 = 10000 * 100.
TOKENS_PER_NAM == <<0, 100>>

MAX_TOTAL_VOTING_POWER == BigDivSmall(I64_MAX, 8)

TOKEN_MAX_AMOUNT == BigDivSmall(BigDivSmall(U64_MAX, Limb), TOKENS_PER_NAM[2])

\* votes_per_token is a Decimal of scale 4: a number of ten-thousandths
\* (DecimalScale).
\* Decimal::from(max_validator_slots) * votes_per_token * Decimal::from(TOKEN_MAX_AMOUNT),
\* in ten-thousandths.
max_total_voting_power(params) ==
    BigMul(BigMulSmall(params.max_validator_slots, params.votes_per_token),
           TOKEN_MAX_AMOUNT)

\* Decimal::to_i64 and Decimal::to_u64 drop the fraction.
decimal_trunc(scaled) == BigDivSmall(scaled, DecimalScale)

\* The check of the maximum total voting power: nothing to report, an
\* error, or a panic of to_u64().unwrap() when the value is not a u64.
total_voting_power_check(params) ==
    LET value == decimal_trunc(max_total_voting_power(params))
    IN  IF ~BigGt(value, I64_MAX)
        THEN IF BigGt(value, MAX_TOTAL_VOTING_POWER)
             THEN [panic |-> FALSE, errors |-> <<"TotalVotingPowerTooLarge">>]
             ELSE [panic |-> FALSE, errors |-> <<>>]
        ELSE IF BigGt(value, U64_MAX)
             THEN [panic |-> TRUE, errors |-> <<>>]
             ELSE [panic |-> FALSE, errors |-> <<"TotalVotingPowerTooLarge">>]

\* Mutant: a pipeline length of 2 is reported as too short.
validate_pipeline_le_two(params) ==
    LET e1 == IF params.pipeline_len <= 2 THEN <<"PipelineLenTooShort">> ELSE <<>>
        e2 == IF params.pipeline_len >= params.unbonding_len
              THEN <<"UnbondingLenTooShort">> ELSE <<>>
        c3 == total_voting_power_check(params)
        e4 == IF params.votes_per_token > DecimalScale
              THEN <<"VotesPerTokenGreaterThanOne">> ELSE <<>>
    IN  IF c3.panic THEN [panic |-> TRUE, errors |-> <<>>]
        ELSE [panic |-> FALSE, errors |-> e1 \o e2 \o c3.errors \o e4]

\* PosParams::validate: the errors in the order they are pushed.
validate(params) ==
    LET e1 == IF params.pipeline_len < 2 THEN <<"PipelineLenTooShort">> ELSE <<>>
        e2 == IF params.pipeline_len >= params.unbonding_len
              THEN <<"UnbondingLenTooShort">> ELSE <<>>
        c3 == total_voting_power_check(params)
        e4 == IF params.votes_per_token > DecimalScale
              THEN <<"VotesPerTokenGreaterThanOne">> ELSE <<>>
    IN  IF c3.panic THEN [panic |-> TRUE, errors |-> <<>>]
        ELSE [panic |-> FALSE, errors |-> e1 \o e2 \o c3.errors \o e4]

\* PosParams::default.
PosParams_default ==
    [max_validator_slots |-> BigFromInt(128), pipeline_len |-> 2, unbonding_len |-> 6,
     votes_per_token |-> DecimalScale]

\* arb_pos_params: the ranges of the generator; of the slots and the votes
\* per token, the ends of the ranges and values in between.
arb_pos_params ==
    UNION {{[max_validator_slots |-> BigFromInt(slots), pipeline_len |-> pipeline_len,
             unbonding_len |-> unbonding_len, votes_per_token |-> votes] :
                slots \in {1, 2, 64, 127},
                unbonding_len \in (pipeline_len + 1)..(pipeline_len + 7),
                votes \in {1, 2, 5000, 9999, 10000}} :
           pipeline_len \in 2..7}

\* Parameter sets of any kind: around every limit of validate.
AnyPosParams ==
    [max_validator_slots : {BigFromInt(n) : n \in {0, 1, 128, 62500, 62501, 1000000, 1000001}}
                               \cup {U64_MAX},
     pipeline_len : {0, 1, 2, 7},
     unbonding_len : {1, 2, 3, 6},
     votes_per_token : {0, 1, 10000, 10001, 20000}]

(***************************************************************************)
(* Inputs.                                                                 *)
(***************************************************************************)
\* Tallies of any kind, reachable or not.
EthMsgs ==
    [body : Events, seen : BOOLEAN, seen_by : SUBSET Validators,
     voting_power : {<<0, 1>>, <<1, 2>>, <<2, 3>>, <<1, 1>>}]

NoVotes == [a \in {} |-> FvpDefault]

\* The votes handed to calculate_update.
VoteMaps == UNION {[voters -> {<<1, 3>>, <<1, 2>>}] : voters \in SUBSET Validators}

\* The sightings validators sign: A at both heights, B at the first.
Sightings == {p \in Validators \X Heights : p[1] = "A" \/ p[2] = 100}

\* EthMsgUpdate: an event and the sightings that sign it.
Updates == [body : Events, seen_by : (SUBSET Sightings) \ {{}}]

\* The update sets of at most n updates.
RECURSIVE BatchesUpTo(_)
BatchesUpTo(n) ==
    IF n = 0 THEN {{}}
    ELSE LET smaller == BatchesUpTo(n - 1)
         IN  smaller \cup {b \cup {u} : b \in smaller, u \in Updates}

Batches == BatchesUpTo(MaxUpdates)

\* The orders in which a HashSet of updates can be iterated.
RECURSIVE IterationOrders(_)
IterationOrders(updates) ==
    IF updates = {} THEN {<<>>}
    ELSE UNION {{<<u>> \o rest : rest \in IterationOrders(updates \ {u})} : u \in updates}

(***************************************************************************)
(* The state machine: one batch per block.                                 *)
(***************************************************************************)
VARIABLES
    pc,              \* "idle": between blocks; "done": a batch was applied
    storage,         \* the store
    validator_sets,  \* the validator sets in storage (fixed at genesis)
    batch,           \* the update set of the last batch
    prev,            \* the store before the last batch
    status,          \* "ok", "err" or "panic": how the last batch ended
    failure,         \* the failure the last batch met: "none", "resolve" or "act_on"
    tx_result,       \* the TxResult of the last batch
    acted,           \* the events act_on was called for in the last batch, in order
    counted,         \* record: <<event, validator, weight>> for every counted vote
    io,              \* record: storage reads and writes and resolution of the last batch
    log,             \* the EventLog
    channel,         \* the channel from the LogEntrySender to the Logger
    logger,          \* "running" or "dropped"
    sent,            \* record: the entries sent, with the result of each send
    iterator,        \* the EventLogIterator: query, node and index
    yielded,         \* record: what next() returned so far, in order
    at_iter,         \* record: the list of the log when iter was called
    pos_params,      \* the PosParams under validation
    pos_result,      \* what validate returned for them
    pos_source,      \* "none", "any" or "arb": where the parameters came from
    op,              \* "none", "validate_update" or "calculate_update"
    eth_msg_pre,     \* the tally before the update
    eth_msg_post,    \* the tally after the update
    votes,           \* the votes calculate_update was called with
    verdict          \* what validate_update returned for (eth_msg_pre, eth_msg_post)

ethVars == <<pc, storage, validator_sets, batch, prev, status, failure, tx_result, acted,
             counted, io>>

logVars == <<log, channel, logger, sent>>

iterVars == <<iterator, yielded, at_iter>>

posVars == <<pos_params, pos_result, pos_source>>

pureVars == <<op, eth_msg_pre, eth_msg_post, votes, verdict>>

vars == <<pc, storage, validator_sets, batch, prev, status, failure, tx_result, acted,
          counted, io, log, channel, logger, sent, iterator, yielded, at_iter,
          pos_params, pos_result, pos_source, op, eth_msg_pre, eth_msg_post, votes,
          verdict>>

NoIo == [reads |-> 0, writes |-> 0, resolved |-> FALSE]

\* events::log::new.
LogStart ==
    /\ log = EventLog_new
    /\ channel = unbounded_channel
    /\ logger = "running"
    /\ sent = <<>>

\* No iterator was asked for yet.
IterStart ==
    /\ iterator = NoIterator
    /\ yielded = <<>>
    /\ at_iter = <<>>

\* The default parameters, not validated.
PosStart ==
    /\ pos_params = PosParams_default
    /\ pos_result = [panic |-> FALSE, errors |-> <<>>]
    /\ pos_source = "none"

\* No tally function was called yet.
PureStart ==
    /\ op = "none"
    /\ eth_msg_pre = new_eth_msg("E1")
    /\ eth_msg_post = new_eth_msg("E1")
    /\ votes = NoVotes
    /\ verdict = Err

\* The ethereum events: the store before the first batch.
EthStart ==
    /\ pc = "idle"
    /\ storage = EmptyStorage
    /\ batch = {}
    /\ prev = EmptyStorage
    /\ status = "ok"
    /\ failure = "none"
    /\ tx_result = TxResultOf(StartOf(EmptyStorage))
    /\ acted = <<>>
    /\ counted = {}
    /\ io = NoIo

Init ==
    /\ LogStart
    /\ IterStart
    /\ PosStart
    /\ PureStart
    /\ EthStart
    /\ validator_sets \in ValidatorSetChoices

\* The block-finalization step calls apply_derived_tx with the block's batch.
ApplyDerivedTx ==
    /\ pc = "idle"
    /\ \E updates \in Batches, fault \in Faults :
         \E order \in IterationOrders(updates) :
           \E r \in {apply_derived_tx(storage, validator_sets, order, fault)} :
               /\ storage' = r.storage
               /\ batch' = updates
               /\ prev' = storage
               /\ status' = r.status
               /\ failure' = r.failure
               /\ tx_result' = TxResultOf(r)
               /\ acted' = r.acted
               /\ counted' = counted \cup r.newly
               /\ io' = [reads |-> r.reads, writes |-> r.writes, resolved |-> r.resolved]
    /\ pc' = "done"
    /\ UNCHANGED validator_sets
    /\ UNCHANGED <<logVars, iterVars, posVars, pureVars>>

\* The caller takes the result; the next block starts from the store as left.
NextBlock ==
    /\ pc = "done"
    /\ pc' = "idle"
    /\ batch' = {}
    /\ prev' = storage
    /\ status' = "ok"
    /\ failure' = "none"
    /\ tx_result' = TxResultOf(StartOf(storage))
    /\ acted' = <<>>
    /\ io' = NoIo
    /\ UNCHANGED <<storage, validator_sets, counted>>
    /\ UNCHANGED <<logVars, iterVars, posVars, pureVars>>

Next == ApplyDerivedTx \/ NextBlock

Spec == Init /\ [][Next]_vars

(***************************************************************************)
(* The state machine of the event log: a sender, the logger task.          *)
(***************************************************************************)
LogInit ==
    /\ LogStart
    /\ IterStart
    /\ PosStart
    /\ PureStart
    /\ EthStart
    /\ validator_sets = EqualThenTwoThirds

\* A FinalizeBlock call sends the entry of its block: heights increase.
SendNewEntry ==
    /\ Len(sent) < MaxSends
    /\ \E entry \in LogEntries :
        /\ \A i \in 1..Len(sent) : sent[i].entry.block_height < entry.block_height
        /\ \E r \in {send_new_entry(channel, entry)} :
            /\ channel' = r.channel
            /\ sent' = Append(sent, [entry |-> entry, result |-> r.result,
                                     dropped |-> (logger = "dropped")])
    /\ UNCHANGED <<log, logger>>
    /\ UNCHANGED <<ethVars, iterVars, posVars, pureVars>>

\* One turn of Logger::run: log_new_entry receives an entry and adds it.
LogNewEntry ==
    /\ logger = "running"
    /\ channel.queue # <<>>
    /\ \E r \in {log_new_entry(log, channel)} :
        /\ log' = r.log
        /\ channel' = r.channel
    /\ UNCHANGED <<logger, sent>>
    /\ UNCHANGED <<ethVars, iterVars, posVars, pureVars>>

\* The Logger is dropped; the EventLog lives on with its other handles.
DropLogger ==
    /\ logger = "running"
    /\ logger' = "dropped"
    /\ channel' = drop_receiver(channel)
    /\ UNCHANGED <<log, sent>>
    /\ UNCHANGED <<ethVars, iterVars, posVars, pureVars>>

\* A reader asks the log for an iterator.
Iter ==
    /\ iterator.state = "none"
    /\ \E query \in Queries : iterator' = iter(log, query)
    /\ at_iter' = log.head
    /\ yielded' = <<>>
    /\ UNCHANGED <<logVars, ethVars, posVars, pureVars>>

\* One call of next() on the iterator.
IterNext ==
    /\ iterator.state = "live"
    /\ \E r \in {next(iterator, log)} :
        IF r.item.some
        THEN /\ iterator' = r.iterator
             /\ yielded' = Append(yielded, [block_height |-> r.item.block_height,
                                            event |-> r.item.event])
        ELSE /\ iterator' = [r.iterator EXCEPT !.state = "exhausted"]
             /\ yielded' = yielded
    /\ UNCHANGED at_iter
    /\ UNCHANGED <<logVars, ethVars, posVars, pureVars>>

LogNext == SendNewEntry \/ LogNewEntry \/ DropLogger \/ Iter \/ IterNext

LogSpec == LogInit /\ [][LogNext]_vars

\* Logger::run is a task of the runtime: a received entry is logged in the end.
LogFairSpec == LogInit /\ [][LogNext]_vars /\ WF_vars(LogNewEntry)

(***************************************************************************)
(* The state machine of the parameters: one validation.                    *)
(***************************************************************************)
PosInit ==
    /\ LogStart
    /\ IterStart
    /\ PosStart
    /\ PureStart
    /\ EthStart
    /\ validator_sets = EqualThenTwoThirds

\* validate is called on a parameter set of any kind.
ValidateAny ==
    /\ pos_source = "none"
    /\ \E params \in AnyPosParams :
        /\ pos_params' = params
        /\ pos_result' = validate(params)
    /\ pos_source' = "any"
    /\ UNCHANGED <<logVars, iterVars, ethVars, pureVars>>

\* test_validate_arb_pos_params: validate is called on a generated set.
ValidateArb ==
    /\ pos_source = "none"
    /\ \E params \in arb_pos_params :
        /\ pos_params' = params
        /\ pos_result' = validate(params)
    /\ pos_source' = "arb"
    /\ UNCHANGED <<logVars, iterVars, ethVars, pureVars>>

PosNext == ValidateAny \/ ValidateArb

PosSpec == PosInit /\ [][PosNext]_vars

(***************************************************************************)
(* The state machine of the tally functions: one call on any tally.        *)
(***************************************************************************)
PureInit ==
    /\ LogStart
    /\ IterStart
    /\ PosStart
    /\ EthStart
    /\ validator_sets = EqualThenTwoThirds
    /\ op = "none"
    /\ eth_msg_pre \in EthMsgs
    /\ eth_msg_post = eth_msg_pre
    /\ votes = NoVotes
    /\ verdict = Err

\* validate_update is called on the tally and any other tally.
ValidateUpdate ==
    /\ op = "none"
    /\ \E post \in EthMsgs :
        /\ eth_msg_post' = post
        /\ verdict' = validate_update(eth_msg_pre, post)
    /\ op' = "validate_update"
    /\ UNCHANGED <<eth_msg_pre, votes>>
    /\ UNCHANGED <<logVars, iterVars, ethVars, posVars>>

\* calculate_update is called on the tally and any votes; apply_update
\* hands its result to validate_update.
CalculateUpdate ==
    /\ op = "none"
    /\ \E v \in VoteMaps :
        \E post \in {calculate_update(eth_msg_pre, v)} :
            /\ votes' = v
            /\ eth_msg_post' = post
            /\ verdict' = validate_update(eth_msg_pre, post)
    /\ op' = "calculate_update"
    /\ UNCHANGED eth_msg_pre
    /\ UNCHANGED <<logVars, iterVars, ethVars, posVars>>

PureNext == ValidateUpdate \/ CalculateUpdate

PureSpec == PureInit /\ [][PureNext]_vars

(***************************************************************************)
(* Vocabulary of the properties.                                           *)
(***************************************************************************)
\* The event has a tally in store s.
Stored(s, e) == seen_key(KeysFrom(e)) \in DOMAIN s

TallyOf(s, e) == read_eth_msg(s, KeysFrom(e))

\* The stored tally of the event is seen.
SeenIn(s, e) == Stored(s, e) /\ s[seen_key(KeysFrom(e))] = TRUE

\* How often act_on was called for the event in the last batch.
ActedCount(e) == Cardinality({i \in 1..Len(acted) : acted[i] = e})

\* The updates of the last batch that report the event.
UpdatesFor(e) == {u \in batch : u.body = e}

\* The weight table the last batch was applied with.
BatchPowers == get_voting_powers(validator_sets, batch)

\* The updates of the last batch concern distinct events.
DistinctEvents == \A e \in Events : Cardinality(UpdatesFor(e)) <= 1

\* Every sighting of the last batch has a voting power.
AllResolved == \A u \in batch : u.seen_by \subseteq DOMAIN BatchPowers

\* Every event that is seen in store s has been acted on.
ActedOnSeen(s) ==
    \A e \in Events :
        SeenIn(s, e) => has_key(s, balance_key(Transfer[e].asset, Transfer[e].receiver))

RECURSIVE SumWeights(_)
SumWeights(triples) ==
    IF triples = {} THEN FvpDefault
    ELSE LET t == CHOOSE x \in triples : TRUE
         IN  FvpAdd(t[3], SumWeights(triples \ {t}))

\* C1: across batches the stored tally of an event is monotonic: it stays
\* stored, its body is never changed, seen_by only grows, voting_power never
\* decreases and seen never goes from true back to false.
C1_TallyMonotonic ==
    \A e \in Events :
        Stored(prev, e) =>
            /\ Stored(storage, e)
            /\ TallyOf(storage, e).body = TallyOf(prev, e).body
            /\ TallyOf(prev, e).seen_by \subseteq TallyOf(storage, e).seen_by
            /\ FvpGe(TallyOf(storage, e).voting_power, TallyOf(prev, e).voting_power)
            /\ (TallyOf(prev, e).seen => TallyOf(storage, e).seen)

\* A batch added a validator and weight to a tally that was already stored
\* and turned its seen to true.
C1_Witness ==
    /\ pc = "done"
    /\ \E e \in Events :
        /\ Stored(prev, e)
        /\ TallyOf(prev, e).seen_by # TallyOf(storage, e).seen_by
        /\ FvpGt(TallyOf(storage, e).voting_power, TallyOf(prev, e).voting_power)
        /\ ~TallyOf(prev, e).seen
        /\ TallyOf(storage, e).seen

\* C2: every stored tally has seen = TRUE exactly when its voting power is
\* strictly greater than two thirds.
C2_SeenIffAboveTwoThirds ==
    \A e \in Events :
        Stored(storage, e) =>
            (TallyOf(storage, e).seen <=> FvpGt(TallyOf(storage, e).voting_power, TWO_THIRDS))

\* A stored tally with exactly two thirds of the voting power, not seen.
C2_Witness ==
    \E e \in Events :
        /\ Stored(storage, e)
        /\ TallyOf(storage, e).voting_power = TWO_THIRDS
        /\ TallyOf(storage, e).seen = FALSE

\* C3: act_on is called for an event exactly once, in the batch that moves
\* its stored seen from false to true (also when the tally was created by an
\* earlier batch), and never for an event whose seen does not move.
\* (Stated for the batches that return and report every event in at most one
\* update.)
C3_ActedOnceWhenSeenFlips ==
    (pc = "done" /\ status = "ok" /\ DistinctEvents) =>
        \A e \in Events :
            ActedCount(e) = IF ~SeenIn(prev, e) /\ SeenIn(storage, e) THEN 1 ELSE 0

\* C4: two validators of equal weight 1/2: a batch in which only A reports a
\* new event stores (seen FALSE, 1/2, {A}), reports the four tally keys and
\* acts on nothing; a following batch in which B reports it stores
\* (seen TRUE, 1, {A, B}) and acts on the event exactly once.
C4_FirstBatch(e) ==
    (/\ batch = {[body |-> e, seen_by |-> {<<"A", 100>>}]}
     /\ ~Stored(prev, e))
    => /\ status = "ok"
       /\ TallyOf(storage, e) =
            [body |-> e, voting_power |-> <<1, 2>>, seen_by |-> {"A"}, seen |-> FALSE]
       /\ tx_result.changed_keys = keys_into_iter(KeysFrom(e))
       /\ acted = <<>>

C4_SecondBatch(e) ==
    (/\ batch = {[body |-> e, seen_by |-> {<<"B", 100>>}]}
     /\ Stored(prev, e)
     /\ TallyOf(prev, e) =
            [body |-> e, voting_power |-> <<1, 2>>, seen_by |-> {"A"}, seen |-> FALSE])
    => /\ status = "ok"
       /\ TallyOf(storage, e) =
            [body |-> e, voting_power |-> <<1, 1>>, seen_by |-> {"A", "B"}, seen |-> TRUE]
       /\ acted = <<e>>

C4_TwoEqualValidators ==
    (pc = "done" /\ failure = "none" /\ validator_sets = EqualThenTwoThirds) =>
        \A e \in Events : C4_FirstBatch(e) /\ C4_SecondBatch(e)

\* The least weight a validator is resolved with among its sightings of u.
LeastWeight(u, v) ==
    LET ws == {BatchPowers[p] : p \in {q \in u.seen_by : q[1] = v}}
    IN  CHOOSE w \in ws : \A x \in ws : FvpGe(x, w)

RECURSIVE LeastCombined(_, _)
LeastCombined(u, vs) ==
    IF vs = {} THEN FvpDefault
    ELSE LET v == CHOOSE x \in vs : TRUE
         IN  FvpAdd(LeastWeight(u, v), LeastCombined(u, vs \ {v}))

\* The batch is the single update u, for an event not in storage, signed by
\* validators that all have a voting power, more than two thirds together,
\* and neither the resolution nor act_on returned an error.
C5_Case(u) ==
    /\ pc = "done"
    /\ failure = "none"
    /\ batch = {u}
    /\ ~Stored(prev, u.body)
    /\ u.seen_by \subseteq DOMAIN BatchPowers
    /\ FvpGt(LeastCombined(u, {p[1] : p \in u.seen_by}), TWO_THIRDS)

C6_FirstVoteWins ==
    \A e \in Events :
        /\ Stored(storage, e) =>
            LET c == {t \in counted : t[1] = e}
            IN  /\ {t[2] : t \in c} = TallyOf(storage, e).seen_by
                /\ Cardinality(c) = Cardinality(TallyOf(storage, e).seen_by)
                /\ TallyOf(storage, e).voting_power = SumWeights(c)
        /\ (/\ Stored(prev, e)
            /\ \A u \in UpdatesFor(e) : \A p \in u.seen_by : p[1] \in TallyOf(prev, e).seen_by)
           => TallyOf(storage, e) = TallyOf(prev, e)

\* A validator counted with one weight reports the event again at a height
\* where its weight is another, and the batch returns.
C6_Witness ==
    /\ pc = "done"
    /\ status = "ok"
    /\ \E e \in Events : \E u \in UpdatesFor(e) : \E p \in u.seen_by :
        /\ Stored(prev, e)
        /\ p[1] \in TallyOf(prev, e).seen_by
        /\ p \in DOMAIN BatchPowers
        /\ <<e, p[1], BatchPowers[p]>> \notin counted

\* C7: on an empty batch apply_derived_tx returns the default result, reads
\* and writes nothing in storage and resolves no voting power.
C7_EmptyBatchIsNoOp ==
    (pc = "done" /\ batch = {}) =>
        /\ status = "ok"
        /\ tx_result = TxResultOf(StartOf(prev))
        /\ tx_result.changed_keys = {}
        /\ acted = <<>>
        /\ storage = prev
        /\ io = [reads |-> 0, writes |-> 0, resolved |-> FALSE]

\* An empty batch was applied on a store that holds tallies.
C7_Witness ==
    /\ pc = "done"
    /\ batch = {}
    /\ \E e \in Events : Stored(prev, e)

\* The tallies of all events in a store.
Tallies(s) == [e \in {x \in Events : Stored(s, x)} |-> TallyOf(s, e)]

\* C8: two runs of apply_derived_tx on the same batch from the same storage
\* return equal changed-key sets and leave equal tallies, whatever the order
\* in which the update set is iterated.  (Stated for runs that return.)
C8_Deterministic ==
    (pc = "done" /\ status = "ok") =>
        \A order \in IterationOrders(batch) :
            \A r \in {apply_derived_tx(prev, validator_sets, order, failure)} :
                r.status = "ok" =>
                    /\ TxResultOf(r).changed_keys = tx_result.changed_keys
                    /\ Tallies(r.storage) = Tallies(storage)

\* C9: for a batch whose updates concern distinct events every order of
\* processing leaves the same storage and the same changed-key set, and the
\* tally of an event the batch does not report is left as it was.  (Stated
\* for batches whose sightings all have a voting power, on a storage whose
\* seen events have been acted on.)
C9_OrderIndependent ==
    (pc = "done" /\ DistinctEvents /\ AllResolved /\ ActedOnSeen(prev)) =>
        /\ \A order \in IterationOrders(batch) :
             \A r \in {apply_derived_tx(prev, validator_sets, order, failure)} :
                /\ r.storage = storage
                /\ TxResultOf(r).changed_keys = tx_result.changed_keys
        /\ \A e \in Events :
             UpdatesFor(e) = {} =>
                /\ Stored(storage, e) = Stored(prev, e)
                /\ Stored(prev, e) => TallyOf(storage, e) = TallyOf(prev, e)

\* The batch with the updates of every event merged into one.
Merged(updates) ==
    {[body |-> e, seen_by |-> UNION {u.seen_by : u \in {x \in updates : x.body = e}}] :
        e \in {u.body : u \in updates}}

\* C10: a batch with several updates for one event leaves the same tallies,
\* changed keys and confirmations as the batch with those updates merged
\* into one update with the union of their sightings; if the union has more
\* than two thirds, the event is confirmed in that batch.  (Stated for runs
\* that return.)
C10_SameAsMerged ==
    (pc = "done" /\ status = "ok") =>
        \A order \in IterationOrders(Merged(batch)) :
            \A r \in {apply_derived_tx(prev, validator_sets, order, failure)} :
                r.status = "ok" =>
                    /\ Tallies(r.storage) = Tallies(storage)
                    /\ TxResultOf(r).changed_keys = tx_result.changed_keys
                    /\ SeqRange(r.acted) = SeqRange(acted)

\* The batch is the single update u and no error was returned to it.
SingleUpdate(u) == pc = "done" /\ failure = "none" /\ batch = {u}

\* The validators of u that have a sighting with a voting power.
ResolvedVoters(u) == {p[1] : p \in {q \in u.seen_by : q \in DOMAIN BatchPowers}}

\* The seen_by of the event before the batch.
SeenByBefore(e) == IF Stored(prev, e) THEN TallyOf(prev, e).seen_by ELSE {}

\* C11: a sighting by a validator without an entry in the weight table is
\* dropped: the batch succeeds, the validators that have a voting power are
\* counted and the others are not added to seen_by.
C11_UnresolvedDropped ==
    \A u \in batch :
        (SingleUpdate(u) /\ ~AllResolved) =>
            /\ status = "ok"
            /\ Stored(storage, u.body)
            /\ TallyOf(storage, u.body).seen_by = SeenByBefore(u.body) \cup ResolvedVoters(u)

\* C12: a batch whose sightings of every event come only from validators
\* already in the seen_by of the event succeeds, leaves the stored tallies as
\* they were, reports no changed key and acts on nothing, also when a tally
\* is already seen.  (Stated for a storage whose seen events have been acted
\* on.)
C12_DuplicateVotesAbsorbed ==
    (/\ pc = "done"
     /\ failure = "none"
     /\ batch # {}
     /\ AllResolved
     /\ ActedOnSeen(prev)
     /\ \A u \in batch : \A p \in u.seen_by : p[1] \in SeenByBefore(u.body))
    => /\ status = "ok"
       /\ storage = prev
       /\ tx_result.changed_keys = {}
       /\ acted = <<>>

\* C13: when a batch fails, the storage is as it was before the batch.
\* (Stated for the failures that are returned as errors.)
C13_FailureLeavesStorage ==
    (pc = "done" /\ status = "err") => storage = prev

\* C14: when the voting-power resolution of a non-empty batch fails, the
\* error is returned before any update is applied: nothing is written and
\* act_on is not called.
C14_ResolutionFailure ==
    (pc = "done" /\ failure = "resolve") =>
        /\ batch # {}
        /\ status = "err"
        /\ storage = prev
        /\ io.writes = 0
        /\ acted = <<>>
        /\ tx_result.changed_keys = {}

\* The resolution failed for a batch that would otherwise have confirmed an
\* event, on a storage that holds a tally.
C14_Witness ==
    /\ pc = "done"
    /\ failure = "resolve"
    /\ \E e \in Events : Stored(prev, e)
    /\ \E order \in IterationOrders(batch) :
         apply_derived_tx(prev, validator_sets, order, "none").acted # <<>>

\* The tally keys of the event whose stored value differs before and after
\* the batch.
DifferingKeys(e) ==
    {k \in keys_into_iter(KeysFrom(e)) :
        k \in DOMAIN storage /\ (k \notin DOMAIN prev \/ prev[k] # storage[k])}

\* C15: the changed keys reported for the tally of an event are exactly the
\* field keys whose stored value differs before and after the update.
C15_ChangedKeysExact ==
    \A u \in batch :
        (SingleUpdate(u) /\ status = "ok") =>
            tx_result.changed_keys \cap keys_into_iter(KeysFrom(u.body))
                = DifferingKeys(u.body)

\* C16: every stored voting power is a fraction between 0 and 1 inclusive,
\* also when the validators of an event voted at different heights.  (Stated
\* for the storage a returning batch leaves.)
C16_VotingPowerWithinUnit ==
    (pc = "done" /\ status = "ok") =>
        \A e \in Events :
            Stored(storage, e) =>
                /\ FvpGe(TallyOf(storage, e).voting_power, <<0, 1>>)
                /\ FvpGe(<<1, 1>>, TallyOf(storage, e).voting_power)

\* C17: the result of apply_derived_tx has gas_used = 0, no accepted or
\* rejected validity predicates, no VP errors, no initialized accounts and no
\* IBC event, whatever its changed keys are.
C17_OnlyChangedKeys ==
    (pc = "done" /\ status = "ok") =>
        /\ tx_result.gas_used = 0
        /\ tx_result.accepted_vps = {}
        /\ tx_result.rejected_vps = {}
        /\ tx_result.vp_errors = {}
        /\ tx_result.initialized_accounts = {}
        /\ tx_result.ibc_event = "None"

\* A batch returned changed keys and wrote to storage.
C17_Witness ==
    /\ pc = "done"
    /\ status = "ok"
    /\ tx_result.changed_keys # {}
    /\ io.writes > 0

\* Hex strings of hashes: those of the events in storage and in the last
\* batch, and two more.
HashHexes ==
    {EventHashHex(e) : e \in {x \in Events : Stored(storage, x)}}
        \cup {EventHashHex(u.body) : u \in batch}
        \cup {"87288D69", "00000000"}

\* The four keys of the event with this hex.
FourKeys(hex) ==
    {body_key(EthMsgKeys_new(hex)), seen_key(EthMsgKeys_new(hex)),
     seen_by_key(EthMsgKeys_new(hex)), voting_power_key(EthMsgKeys_new(hex))}

\* C18: the four keys of an event are the prefix eth_msgs/<hex> followed by
\* one distinct segment each: they are pairwise distinct, and the keys of two
\* events with different hashes never coincide.
C18_KeysDistinct ==
    \A h1, h2 \in HashHexes :
        /\ body_key(EthMsgKeys_new(h1)) = <<"eth_msgs", h1, "body">>
        /\ seen_key(EthMsgKeys_new(h1)) = <<"eth_msgs", h1, "seen">>
        /\ seen_by_key(EthMsgKeys_new(h1)) = <<"eth_msgs", h1, "seen_by">>
        /\ voting_power_key(EthMsgKeys_new(h1)) = <<"eth_msgs", h1, "voting_power">>
        /\ Cardinality(FourKeys(h1)) = 4
        /\ (h1 # h2 => FourKeys(h1) \cap FourKeys(h2) = {})

\* The tallies of two events are in storage, under eight keys.
C18_Witness ==
    /\ \A e \in Events : Stored(storage, e)
    /\ Cardinality({k \in DOMAIN storage : k[1] = TOP_LEVEL_KEY}) = 8

\* The number of events the log holds.
RECURSIVE EventCount(_)
EventCount(head) ==
    IF head = <<>> THEN 0 ELSE Len(Head(head).events) + EventCount(Tail(head))

\* The log is within both of its limits.
WithinLimits(l) ==
    /\ EventCount(l.head) <= MAX_LOG_EVENTS
    /\ l.head # <<>> =>
         l.head[1].block_height - l.head[Len(l.head)].block_height <= LOG_BLOCK_HEIGHT_DIFF

\* C19: after EventLog::add returns the log is within both limits: it holds
\* at most MAX_LOG_EVENTS events and the block heights of its newest and
\* oldest entries differ by at most LOG_BLOCK_HEIGHT_DIFF.
C19_LogPruned == WithinLimits(log)

\* The entries of the log and of the channel.
Logged == {log.head[i] : i \in 1..Len(log.head)}

Queued == {channel.queue[i] : i \in 1..Len(channel.queue)}

\* C20: send_new_entry returns None exactly when the Logger has been
\* dropped, and otherwise queues the entry and returns Some(()); no entry
\* sent after the Logger was dropped is queued or added to the log.
C20_SendFailsAfterDrop ==
    \A i \in 1..Len(sent) :
        /\ (sent[i].result = "None") <=> sent[i].dropped
        /\ sent[i].dropped => sent[i].entry \notin Logged \cup Queued
        /\ (sent[i].result = "Some" /\ logger = "running")
              => sent[i].entry \in Logged \cup Queued

\* An entry was logged, the Logger was dropped, and a later send failed.
C20_Witness ==
    /\ logger = "dropped"
    /\ log.head # <<>>
    /\ \E i \in 1..Len(sent) : sent[i].dropped /\ sent[i].result = "None"
    /\ \E i \in 1..Len(sent) : ~sent[i].dropped /\ sent[i].result = "Some"

(***************************************************************************)
(* Properties of the order of effects and of votes at several heights.     *)
(***************************************************************************)
\* C26: the confirmation effects of a batch are invoked in an order that
\* depends only on the set of newly confirmed events, not on the order in
\* which the update set is iterated.
C26_ActOrderBySet ==
    (pc = "done" /\ status = "ok") =>
        \A order \in IterationOrders(batch) :
            \A r \in {apply_derived_tx(prev, validator_sets, order, "none")} :
                (r.status = "ok" /\ SeqRange(r.acted) = SeqRange(acted))
                    => r.acted = acted

\* The greatest height at which the validator signs the update.
LastHeight(u, v) ==
    CHOOSE h \in Heights :
        /\ <<v, h>> \in u.seen_by
        /\ \A g \in Heights : <<v, g>> \in u.seen_by => g <= h

\* The validator signs the update at two heights with different weights and
\* is not yet in seen_by of the event.
TwoWeights(u, v) ==
    /\ <<v, 100>> \in u.seen_by
    /\ <<v, 101>> \in u.seen_by
    /\ v \notin SeenByBefore(u.body)
    /\ BatchPowers[<<v, 100>>] # BatchPowers[<<v, 101>>]

\* The voting power before the batch plus, for every new voter, its weight
\* at the greatest height at which it signs.
PowerWithLastHeights(u) ==
    LET newly == {p[1] : p \in u.seen_by} \ SeenByBefore(u.body)
        before == IF Stored(prev, u.body) THEN TallyOf(prev, u.body).voting_power
                  ELSE FvpDefault
    IN  SumVotes(before, [v \in newly |-> BatchPowers[<<v, LastHeight(u, v)>>]], newly)

\* C27: a validator that signs one update at two heights with different
\* weights, and is not yet in seen_by, is counted once, with its weight at
\* the greater height: not with the sum and not with the other weight.
C27_GreaterHeightWins ==
    \A u \in batch :
        (SingleUpdate(u) /\ status = "ok" /\ AllResolved) =>
            \A v \in Validators :
                TwoWeights(u, v) =>
                    /\ v \in TallyOf(storage, u.body).seen_by
                    /\ <<u.body, v, BatchPowers[<<v, 101>>]>> \in counted
                    /\ <<u.body, v, BatchPowers[<<v, 100>>]>> \notin counted
                    /\ TallyOf(storage, u.body).voting_power = PowerWithLastHeights(u)

\* An update signed by a validator at both heights, with different weights,
\* was applied and the validator was new to the event.
C27_Witness ==
    /\ status = "ok"
    /\ AllResolved
    /\ \E u \in batch : SingleUpdate(u) /\ TwoWeights(u, "A")

(***************************************************************************)
(* Properties of the proof-of-stake parameters.                            *)
(***************************************************************************)
\* The conditions of validate that the parameters violate; the product of
\* the slots, the votes per token and TOKEN_MAX_AMOUNT is compared exactly.
ViolatedConditions(params) ==
    {c \in {"PipelineLenTooShort", "UnbondingLenTooShort", "TotalVotingPowerTooLarge",
            "VotesPerTokenGreaterThanOne"} :
        \/ c = "PipelineLenTooShort" /\ ~(params.pipeline_len >= 2)
        \/ c = "UnbondingLenTooShort" /\ ~(params.unbonding_len > params.pipeline_len)
        \/ c = "VotesPerTokenGreaterThanOne" /\ ~(params.votes_per_token <= DecimalScale)
        \/ c = "TotalVotingPowerTooLarge"
            /\ BigGt(max_total_voting_power(params),
                     BigMulSmall(MAX_TOTAL_VOTING_POWER, DecimalScale))}

ErrorsOf(result) == {result.errors[i] : i \in 1..Len(result.errors)}

\* C21: validate returns the empty list exactly when the pipeline length is
\* at least 2, the unbonding length is greater than the pipeline length,
\* the votes per token are at most 1 and the greatest total voting power is
\* at most i64::MAX / 8; otherwise it returns one error for each condition
\* that is violated.
C21_ValidateReportsAll ==
    pos_source # "none" =>
        /\ ~pos_result.panic
        /\ ErrorsOf(pos_result) = ViolatedConditions(pos_params)
        /\ Len(pos_result.errors) = Cardinality(ViolatedConditions(pos_params))

\* C22: every parameter set that arb_pos_params generates passes validate
\* with no error.
C22_ArbParamsValid ==
    pos_source = "arb" => (~pos_result.panic /\ pos_result.errors = <<>>)

\* A generated set at the upper end of every range was validated.
C22_Witness ==
    /\ pos_source = "arb"
    /\ pos_params.pipeline_len = 7
    /\ pos_params.unbonding_len = 14
    /\ pos_params.max_validator_slots = BigFromInt(127)
    /\ pos_params.votes_per_token = DecimalScale
    /\ pos_result.errors = <<>>

(***************************************************************************)
(* Properties of calculate_update and validate_update on any tally.        *)
(***************************************************************************)
\* C23: validate_update rejects every transition whose next tally has a
\* voting power above 2/3 and seen = false, whatever the previous tally.
C23_QuorumWithoutSeenRejected ==
    (/\ op = "validate_update"
     /\ FvpGt(eth_msg_post.voting_power, TWO_THIRDS)
     /\ ~eth_msg_post.seen)
        => ~verdict.ok

DifferingFields ==
    LET keys == KeysFrom(eth_msg_pre.body)
    IN  {k \in {seen_key(keys), seen_by_key(keys), voting_power_key(keys)} :
            \/ k = seen_key(keys) /\ eth_msg_pre.seen # eth_msg_post.seen
            \/ k = seen_by_key(keys) /\ eth_msg_pre.seen_by # eth_msg_post.seen_by
            \/ k = voting_power_key(keys)
                /\ eth_msg_pre.voting_power # eth_msg_post.voting_power}

\* In a well-formed tally seen tells whether the voting power is above 2/3.
WellFormed(eth_msg) == eth_msg.seen <=> FvpGt(eth_msg.voting_power, TWO_THIRDS)

\* The pair breaks one of the invariants of a tally.
BreaksInvariant ==
    \/ eth_msg_pre.body # eth_msg_post.body
    \/ eth_msg_pre.seen /\ ~eth_msg_post.seen
    \/ ~(eth_msg_pre.seen_by \subseteq eth_msg_post.seen_by)
    \/ FvpGt(eth_msg_pre.voting_power, eth_msg_post.voting_power)

\* C25: validate_update returns an error for every pair where the body
\* differs, seen goes from true to false, the new seen_by is no superset of
\* the old or the new voting power is lower; for a pair that violates none
\* of these it returns Ok with the keys of exactly the fields that differ
\* among seen, seen_by and voting_power.  (The second half is stated for
\* pairs of well-formed tallies.)
C25_ValidateUpdateExact ==
    op = "validate_update" =>
        /\ BreaksInvariant => ~verdict.ok
        /\ (~BreaksInvariant /\ WellFormed(eth_msg_pre) /\ WellFormed(eth_msg_post))
            => (verdict.ok /\ verdict.keys = DifferingFields)

(***************************************************************************)
(* Properties of the iterator and of the logger task.                      *)
(***************************************************************************)
\* The events of the entry that the query matches, in stored order.
RECURSIVE MatchingEvents(_, _, _)
MatchingEvents(entry, query, i) ==
    IF i > Len(entry.events) THEN <<>>
    ELSE (IF matches(query, entry.events[i])
          THEN <<[block_height |-> entry.block_height, event |-> entry.events[i]]>>
          ELSE <<>>)
         \o MatchingEvents(entry, query, i + 1)

\* The matching events of a list of entries, from its first entry on.
RECURSIVE Expected(_, _)
Expected(entries, query) ==
    IF entries = <<>> THEN <<>>
    ELSE MatchingEvents(Head(entries), query, 1) \o Expected(Tail(entries), query)

\* What the iterator yields from here on if it is called until None.
RECURSIVE Drain(_, _)
Drain(it, l) ==
    LET r == next(it, l)
    IN  IF r.item.some
        THEN <<[block_height |-> r.item.block_height, event |-> r.item.event]>>
                \o Drain(r.iterator, l)
        ELSE <<>>

IteratorGiven == iterator.state \in {"live", "exhausted"}

\* C28: the iterator of iter(query) yields exactly the matching events of
\* the entries that were in the log when iter was called, each once, from
\* the newest entry to the oldest and within an entry in stored order, and
\* then None.
C28_IteratorYieldsMatching ==
    IteratorGiven =>
        /\ Len(yielded) <= Len(Expected(at_iter, iterator.query))
        /\ yielded = SubSeq(Expected(at_iter, iterator.query), 1, Len(yielded))
        /\ iterator.state = "exhausted" => yielded = Expected(at_iter, iterator.query)

\* The iterator ran to None over a log of two entries or more, yielded
\* events of two entries and skipped an event that does not match.
C28_Witness ==
    /\ iterator.state = "exhausted"
    /\ Len(at_iter) >= 2
    /\ \E i, j \in 1..Len(yielded) : yielded[i].block_height # yielded[j].block_height
    /\ \E i \in 1..Len(at_iter) : \E j \in 1..Len(at_iter[i].events) :
        ~matches(iterator.query, at_iter[i].events[j])

\* The list of the n oldest entries of the log.
OldestEntries(l, n) == SubSeq(l.head, Len(l.head) - n + 1, Len(l.head))

\* C29: under any interleaving of add with the steps of an iterator, the
\* iterator yields the sequence it would yield without the adds: entries
\* added after iter are never yielded, and add neither changes nor removes
\* an entry the iterator can reach.
C29_ConcurrentAddInvisible ==
    IteratorGiven =>
        /\ Len(log.head) >= Len(at_iter)
        /\ OldestEntries(log, Len(at_iter)) = at_iter
        /\ yielded \o Drain(iterator, log) = Expected(at_iter, iterator.query)
        /\ \A i \in 1..Len(yielded) :
            \E j \in 1..Len(at_iter) : at_iter[j].block_height = yielded[i].block_height

\* An entry was added after iter while the iterator was under way: it has
\* yielded an event and has more to yield.
C29_Witness ==
    /\ iterator.state = "live"
    /\ yielded # <<>>
    /\ Len(log.head) > Len(at_iter)
    /\ Drain(iterator, log) # <<>>

\* The entries that send_new_entry accepted, in send order.
RECURSIVE Accepted(_)
Accepted(q) ==
    IF q = <<>> THEN <<>>
    ELSE (IF Head(q).result = "Some" THEN <<Head(q).entry>> ELSE <<>>) \o Accepted(Tail(q))

\* The entries of the log from the oldest to the newest.
OldestFirst(l) == [i \in 1..Len(l.head) |-> l.head[Len(l.head) - i + 1]]

\* C30: the entries sent while the Logger is alive are added to the log in
\* send order, each once, num_entries growing by one per entry; and every
\* such entry is added in the end unless the Logger is dropped.
C30_LoggedInSendOrder ==
    /\ [](/\ log.num_entries = Len(log.head)
          /\ Len(log.head) <= Len(Accepted(sent))
          /\ OldestFirst(log) = SubSeq(Accepted(sent), 1, Len(log.head))
          /\ logger = "running" => OldestFirst(log) \o channel.queue = Accepted(sent))
    /\ \A entry \in LogEntries :
        (entry \in Queued) ~> (entry \in Logged \/ logger = "dropped")

\* Three entries were sent and the running Logger has added them all.
C30_Witness ==
    /\ logger = "running"
    /\ Len(sent) = 3
    /\ log.num_entries = 3
    /\ channel.queue = <<>>

====
